---- MODULE Spec2Model ----
(***************************************************************************)
(* Model of ontobio's owlsim2 client (ontobio/sim/api/owlsim2.py) and the  *)
(* similarity records it builds (ontobio/model/similarity.py).             *)
(*                                                                         *)
(* Python values are modelled as follows.                                  *)
(*   - Optional[T]: None is the empty tuple, a present value v is <<v>>.   *)
(*   - a dict is a function on its keys (a record); d[k] = v on a dict is  *)
(*     SetItem, which adds or overwrites the key.                          *)
(*   - a CURIE string "MONDO:1" is the tuple of its colon-separated parts, *)
(*     <<"MONDO", "1">>, so that split(":")[0] is the first part.          *)
(*   - a field typed Union[int, str] holds a tagged value, PyInt or PyStr. *)
(*   - a call that raises yields [raised |-> <exception>, value |-> None]. *)
(***************************************************************************)
EXTENDS Integers, Sequences, FiniteSets, TLC

\* ------------------------------------------------------------------ bounds

\* Longest 'results' list the remote service answers with.
MaxResults == 3

\* ------------------------------------------------------------ python values

None == <<>>
Some(v) == <<v>>

PyInt(n) == [t |-> "int", v |-> n]
PyStr(s) == [t |-> "str", v |-> s]

Return(v) == [raised |-> "none", value |-> v]
Raise(e) == [raised |-> e, value |-> None]

Range(s) == {s[i] : i \in DOMAIN s}

\* Faulty variant: a value already under the key is added to, not overwritten.
SetItemAccumulating(d, key, value) ==
    [k \in DOMAIN d \cup {key} |->
        IF k # key THEN d[k]
        ELSE IF key \in DOMAIN d THEN d[key] + value ELSE value]

\* d[key] = value on a dict: the key is added, or its value overwritten.
SetItem(d, key, value) ==
    [k \in DOMAIN d \cup {key} |-> IF k = key THEN value ELSE d[k]]

\* str.lower() on the category strings the model calls it with.
lower(s) ==
    CASE s = "Gene" -> "gene"
      [] s = "GENE" -> "gene"
      [] s = "Disease" -> "disease"
      [] s = "CASE" -> "case"
      [] OTHER -> s

\* ------------------------------------------------------------ static tables

TAX_TO_NS ==
    (10090 :> [gene |-> "MGI"])
    @@ (9606 :> [disease |-> "MONDO", case |-> "MONARCH", gene |-> "HGNC"])
    @@ (7227 :> [gene |-> "FlyBase"])
    @@ (6239 :> [gene |-> "WormBase"])
    @@ (7955 :> [gene |-> "ZFIN"])

human_tax == [id |-> <<"NCBITaxon", "9606">>, label |-> "Homo sapiens"]

NS_TO_TAX ==
    [MGI |-> [id |-> <<"NCBITaxon", "10090">>, label |-> "Mus musculus"],
     MONDO |-> human_tax,
     OMIM |-> human_tax,
     MONARCH |-> human_tax,
     HGNC |-> human_tax,
     FlyBase |-> [id |-> <<"NCBITaxon", "7227">>, label |-> "Drosophila melanogaster"],
     WormBase |-> [id |-> <<"NCBITaxon", "6239">>, label |-> "Caenorhabditis elegans"],
     ZFIN |-> [id |-> <<"NCBITaxon", "7955">>, label |-> "Danio rerio"]]

method2key ==
    [PHENODIGM |-> "combinedScore",
     JACCARD |-> "simJ",
     SIM_GIC |-> "simGIC",
     RESNIK |-> "bmaAsymIC",
     SYMMETRIC_RESNIK |-> "bmaSymIC"]

matchers == <<"PHENODIGM", "JACCARD", "SIM_GIC", "RESNIK", "SYMMETRIC_RESNIK">>

taxon_category_default ==
    (10090 :> "gene")
    @@ (9606 :> "disease")
    @@ (7227 :> "gene")
    @@ (6239 :> "gene")
    @@ (7955 :> "gene")

\* ------------------------------------------------------- namespace resolver

\* d[k] on a dict: KeyError when the key is missing.
GetItem(d, k) == IF k \in DOMAIN d THEN Return(d[k]) ELSE Raise("KeyError")

\* OwlSim2Api.TAX_TO_NS[taxon_filter][category_filter.lower()]
tax_to_ns_lookup(taxon, category) ==
    LET by_taxon == GetItem(TAX_TO_NS, taxon)
    IN  IF by_taxon.raised # "none" THEN by_taxon
        ELSE LET ns == GetItem(by_taxon.value, lower(category))
             IN  IF ns.raised # "none" THEN ns ELSE Return(Some(ns.value))

\* Faulty variant: a category without a taxon is not rejected.
get_namespace_filter_unguarded(taxon_filter, category_filter) ==
    IF category_filter = None /\ taxon_filter # None
    THEN LET default == GetItem(taxon_category_default, taxon_filter[1])
         IN  IF default.raised # "none" THEN default
             ELSE tax_to_ns_lookup(taxon_filter[1], default.value)
    ELSE Return(None)

\* Faulty variant: the defaulted category is returned, not its namespace.
get_namespace_filter_category(taxon_filter, category_filter) ==
    IF category_filter # None /\ taxon_filter = None
    THEN Raise("ValueError")
    ELSE IF category_filter = None /\ taxon_filter # None
    THEN LET default == GetItem(taxon_category_default, taxon_filter[1])
         IN  IF default.raised # "none" THEN default
             ELSE Return(Some(default.value))
    ELSE Return(None)

_get_namespace_filter(taxon_filter, category_filter) ==
    IF category_filter # None /\ taxon_filter = None
    THEN Raise("ValueError")
    ELSE IF category_filter = None /\ taxon_filter # None
    THEN LET default == GetItem(taxon_category_default, taxon_filter[1])
         IN  IF default.raised # "none" THEN default
             ELSE tax_to_ns_lookup(taxon_filter[1], default.value)
    ELSE Return(None)

\* ------------------------------------------------------------ result ranker

\* Faulty variant: x goes before the elements with its own key, as when the
\* list is sorted ascending and then reversed.
sorted_insert_unstable(out, x, key) ==
    LET n == Cardinality({i \in DOMAIN out : out[i][key] > x[key]})
    IN  SubSeq(out, 1, n) \o <<x>> \o SubSeq(out, n + 1, Len(out))

\* One step of sorted(results, reverse=True, key=...): x goes after every
\* element already placed whose key is at least its own, so that elements
\* with equal keys keep the order they had in the input (reverse=True keeps
\* the sort stable).
sorted_insert(out, x, key) ==
    LET n == Cardinality({i \in DOMAIN out : out[i][key] >= x[key]})
    IN  SubSeq(out, 1, n) \o <<x>> \o SubSeq(out, n + 1, Len(out))

RECURSIVE sorted_reverse(_, _)
sorted_reverse(results, key) ==
    IF Len(results) = 0 THEN <<>>
    ELSE sorted_insert(sorted_reverse(SubSeq(results, 1, Len(results) - 1), key),
                       results[Len(results)], key)

\* Faulty variant: after a tie the rank jumps to the position (1, 1, 3).
RECURSIVE rank_loop_competition(_, _, _, _, _)
rank_loop_competition(sorted_results, key, i, rank, previous_score) ==
    IF i > Len(sorted_results) THEN sorted_results
    ELSE rank_loop_competition(
            [sorted_results EXCEPT ![i] =
                SetItem(@, "rank", IF previous_score > @[key] THEN i ELSE rank)],
            key, i + 1,
            IF previous_score > sorted_results[i][key] THEN i ELSE rank,
            sorted_results[i][key])

\* The for loop of _rank_results from its i-th iteration on.
RECURSIVE rank_loop(_, _, _, _, _)
rank_loop(sorted_results, key, i, rank, previous_score) ==
    IF i > Len(sorted_results) THEN sorted_results
    ELSE rank_loop(
            [sorted_results EXCEPT ![i] =
                SetItem(@, "rank", IF previous_score > @[key] THEN rank + 1 ELSE rank)],
            key, i + 1,
            IF previous_score > sorted_results[i][key] THEN rank + 1 ELSE rank,
            sorted_results[i][key])

\* Faulty variant: an empty list is returned as it is.
rank_sorted_defensive(sorted_results, key) ==
    IF Len(sorted_results) = 0 THEN Return(<<>>)
    ELSE Return(rank_loop(sorted_results, key, 1, 1, sorted_results[1][key]))

\* _rank_results from 'rank = 1' on: reading sorted_results[0] of an empty
\* list raises IndexError.
rank_sorted(sorted_results, key) ==
    IF Len(sorted_results) = 0 THEN Raise("IndexError")
    ELSE Return(rank_loop(sorted_results, key, 1, 1, sorted_results[1][key]))

_rank_results(results, method) ==
    rank_sorted(sorted_reverse(results, method2key[method]), method2key[method])

\* ---------------------------------------------------------- result assembly

\* ICNode(**d): id and IC are required, label defaults to None.
ICNode(d) ==
    [id |-> d.id, IC |-> d.IC,
     label |-> IF "label" \in DOMAIN d THEN Some(d.label) ELSE None]

PairwiseMatch(query, match, lcs) == [query |-> query, match |-> match, lcs |-> lcs]

_make_pairwise_matches(result) ==
    [i \in DOMAIN result.matches |->
        PairwiseMatch(ICNode(result.matches[i].a),
                      ICNode(result.matches[i].b),
                      ICNode(result.matches[i].lcs))]

\* Resolution of identifiers to Nodes (ontobio.util.scigraph_util).
get_nodes_from_ids(ids) ==
    [i \in DOMAIN ids |-> [id |-> ids[i], label |-> None]]

\* Per identifier, the ordered list of its type tags (ontobio.util.scigraph_util).
get_id_type_map(ids) ==
    [id \in Range(ids) |->
        IF id[1] \in {"MONDO", "OMIM"} THEN <<"disease", "entity">>
        ELSE IF id[1] \in {"HGNC", "MGI"} THEN <<"gene", "entity">>
        ELSE <<"entity">>]

\* Faulty variant: the computed rank is kept in every mode.
match_rank_computed(result, mode) == PyInt(result.rank)

\* rank=result['rank'] if mode == 'search' else "NaN"
match_rank(result, mode) ==
    IF mode = "search" THEN PyInt(result.rank) ELSE PyStr("NaN")

SimMatch(id, label, rank, score, type, taxon, significance, pairwise_match) ==
    [id |-> id, label |-> label, rank |-> rank, score |-> score, type |-> type,
     taxon |-> taxon, significance |-> significance,
     pairwise_match |-> pairwise_match]

SimQuery(ids, unresolved_ids, target_ids) ==
    [ids |-> ids, negated_ids |-> <<>>, unresolved_ids |-> unresolved_ids,
     target_ids |-> target_ids]

SimResult(query, matches) == [query |-> query, matches |-> matches]

\* The loop body of _simsearch_to_simresult: the SimMatch of one ranked result.
make_match(result, id_type_map, method, mode) ==
    SimMatch(result.j.id, result.j.label, match_rank(result, mode),
             result[method2key[method]], id_type_map[result.j.id][1],
             IF result.j.id[1] \in DOMAIN NS_TO_TAX
             THEN NS_TO_TAX[result.j.id[1]] ELSE <<>>,
             "NaN", _make_pairwise_matches(result))

\* Faulty variant: each SimMatch is put in front of the earlier ones.
make_matches_reversed(results, id_type_map, method, mode) ==
    [i \in DOMAIN results |->
        make_match(results[Len(results) + 1 - i], id_type_map, method, mode)]

\* The matches of _simsearch_to_simresult: one per ranked result, in order.
make_matches(results, id_type_map, method, mode) ==
    [i \in DOMAIN results |-> make_match(results[i], id_type_map, method, mode)]

\* _simsearch_to_simresult once sim_resp['results'] holds the ranked list.
assemble(sim_resp, method, mode) ==
    [sim_resp |-> sim_resp,
     outcome |-> Return(SimResult(
        SimQuery(get_nodes_from_ids(sim_resp.query_IRIs), sim_resp.unresolved,
                 IF mode = "compare"
                 THEN <<get_nodes_from_ids(sim_resp.target_IRIs)>>
                 ELSE <<<<>>>>),
        make_matches(sim_resp.results,
                     get_id_type_map([i \in DOMAIN sim_resp.results |->
                                        sim_resp.results[i].j.id]),
                     method, mode)))]

\* _simsearch_to_simresult after the call of _rank_results, whose exception
\* propagates and leaves sim_resp as it was.
after_ranking(sim_resp, ranked, method, mode) ==
    IF ranked.raised # "none"
    THEN [sim_resp |-> sim_resp, outcome |-> ranked]
    ELSE assemble([sim_resp EXCEPT !.results = ranked.value], method, mode)

\* Returns the response as the call leaves it and what the call returns or
\* raises.
_simsearch_to_simresult(sim_resp, method, mode) ==
    after_ranking(sim_resp, _rank_results(sim_resp.results, method), method, mode)

\* ------------------------------------------------------------------- inputs

Methods == Range(matchers)

Taxa == {None} \cup {Some(t) : t \in DOMAIN TAX_TO_NS} \cup {Some(4932)}

Categories == {None, Some("gene"), Some("Gene"), Some("disease"), Some("CASE"),
               Some("phenotype")}

Profile == <<<<"HP", "0000118">>, <<"HP", "0000707">>>>

OtherProfile == <<<<"HP", "0001939">>>>

NegatedLists == {<<>>, <<<<"HP", "0000152">>>>}

pairwise_1 ==
    [a |-> [id |-> <<"HP", "0000118">>, IC |-> 4, label |-> "Phenotypic abnormality"],
     b |-> [id |-> <<"HP", "0000924">>, IC |-> 6, label |-> "Abnormality of the skeletal system"],
     lcs |-> [id |-> <<"HP", "0000118">>, IC |-> 4, label |-> "Phenotypic abnormality"]]

pairwise_2 ==
    [a |-> [id |-> <<"HP", "0000707">>, IC |-> 5],
     b |-> [id |-> <<"MP", "0003631">>, IC |-> 7],
     lcs |-> [id |-> <<"UPHENO", "0004523">>, IC |-> 3]]

raw_result(id, label, combinedScore, simJ, simGIC, bmaAsymIC, bmaSymIC, pairwise) ==
    [j |-> [id |-> id, label |-> label],
     combinedScore |-> combinedScore, simJ |-> simJ, simGIC |-> simGIC,
     bmaAsymIC |-> bmaAsymIC, bmaSymIC |-> bmaSymIC,
     matches |-> pairwise]

\* The raw results the remote service answers with: under every method some
\* of them tie and some differ; the last one already carries a 'rank'.
RawResults ==
    {raw_result(<<"MONDO", "0007947">>, "Marfan syndrome", 10, 7, 7, 10, 7,
                <<pairwise_1, pairwise_2>>),
     raw_result(<<"HGNC", "3603">>, "FBN1", 10, 10, 7, 7, 7, <<pairwise_1>>),
     raw_result(<<"MGI", "95489">>, "Fbn1", 7, 10, 10, 7, 7, <<>>),
     SetItem(raw_result(<<"ORPHA", "284993">>, "Marfan syndrome type 1",
                        7, 7, 10, 10, 10, <<pairwise_2>>),
             "rank", 5)}

ResultLists == UNION {[1..n -> RawResults] : n \in 0..MaxResults}

\* What the remote service answers to a request: a JSON body, or the request
\* fails (transport failure, timeout, a body that is not JSON).
SearchAnswers ==
    {Return([unresolved |-> <<>>, query_IRIs |-> Profile, results |-> rs])
        : rs \in ResultLists}
    \cup {Raise("RequestException")}

CompareAnswers ==
    {Return([unresolved |-> <<>>, query_IRIs |-> Profile,
             target_IRIs |-> OtherProfile, results |-> rs])
        : rs \in ResultLists}
    \cup {Raise("RequestException")}

\* -------------------------------------------------------------------- state

VARIABLES
    pc,                 \* "idle", "done" (a call has ended), "reranked"
    call,               \* the operation called and its arguments
    log,                \* the diagnostics the call logged
    sent,               \* the outbound requests the call issued
    namespace_filter,   \* what _get_namespace_filter returned or raised
    answer,             \* what the remote service answered
    sim_resp,           \* the response dict as the call leaves it
    outcome             \* what the call returned or raised

vars == <<pc, call, log, sent, namespace_filter, answer, sim_resp, outcome>>

Init ==
    /\ pc = "idle"
    /\ call = None
    /\ log = <<>>
    /\ sent = <<>>
    /\ namespace_filter = None
    /\ answer = None
    /\ sim_resp = None
    /\ outcome = None

\* ------------------------------------------------------------------ client

\* Faulty variant: the warning is logged for an empty list too.
negation_warning_always(negated_classes) ==
    <<[level |-> "warning",
       msg |-> "Owlsim2 does not support negation, ignoring neg classes"]>>

\* if len(negated_classes) > 0: logging.warning(...)
negation_warning(negated_classes) ==
    IF Len(negated_classes) > 0
    THEN <<[level |-> "warning",
            msg |-> "Owlsim2 does not support negation, ignoring neg classes"]>>
    ELSE <<>>

\* The GET request of search_by_attribute_set.
search_request(profile, ns) ==
    [endpoint |-> "searchByAttributeSet", params |-> [a |-> profile, target |-> ns]]

\* The GET request of compare_attribute_sets.
compare_request(profile_a, profile_b) ==
    [endpoint |-> "compareAttributeSets", params |-> [a |-> profile_a, b |-> profile_b]]

\* The call ends on the remote service's answer: its exception propagates,
\* its JSON body is converted to a SimResult.
convert(ans, method, mode) ==
    IF ans.raised # "none"
    THEN /\ sim_resp' = None
         /\ outcome' = ans
    ELSE \E r \in {_simsearch_to_simresult(ans.value, method, mode)} :
            /\ sim_resp' = r.sim_resp
            /\ outcome' = r.outcome

filtered_search(op, id_list, negated_classes, taxon_filter, category_filter, method, ans) ==
    \E ns \in {_get_namespace_filter(taxon_filter, category_filter)} :
        /\ pc' = "done"
        /\ call' = [op |-> op, id_list |-> id_list,
                    negated_classes |-> negated_classes,
                    taxon_filter |-> taxon_filter,
                    category_filter |-> category_filter, method |-> method]
        /\ log' = negation_warning(negated_classes)
        /\ namespace_filter' = ns
        /\ IF ns.raised # "none"
           THEN /\ sent' = <<>>
                /\ answer' = None
                /\ sim_resp' = None
                /\ outcome' = ns
           ELSE /\ sent' = <<search_request(id_list, ns.value)>>
                /\ answer' = ans
                /\ convert(ans, method, "search")

FilteredSearch ==
    /\ pc = "idle"
    /\ \E negated_classes \in NegatedLists, taxon_filter \in Taxa,
       category_filter \in Categories, method \in Methods, ans \in SearchAnswers :
        filtered_search("filtered_search", Profile, negated_classes, taxon_filter,
                        category_filter, method, ans)

Search ==
    /\ pc = "idle"
    /\ \E negated_classes \in NegatedLists, method \in Methods, ans \in SearchAnswers :
        filtered_search("search", Profile, negated_classes, None, None, method, ans)

Compare ==
    /\ pc = "idle"
    /\ \E method \in Methods, ans \in CompareAnswers :
        /\ pc' = "done"
        /\ call' = [op |-> "compare", reference_classes |-> Profile,
                    query_classes |-> OtherProfile, method |-> method]
        /\ log' = <<>>
        /\ namespace_filter' = None
        /\ sent' = <<compare_request(Profile, OtherProfile)>>
        /\ answer' = ans
        /\ convert(ans, method, "compare")

\* _rank_results called again on the list it returned, under the same method.
Rerank ==
    /\ pc = "done"
    /\ outcome.raised = "none"
    /\ \E ranked \in {_rank_results(sim_resp.results, call.method)} :
            /\ ranked.raised = "none"
            /\ sim_resp' = [sim_resp EXCEPT !.results = ranked.value]
    /\ pc' = "reranked"
    /\ UNCHANGED <<call, log, sent, namespace_filter, answer, outcome>>

Next == Search \/ FilteredSearch \/ Compare \/ Rerank

Spec == Init /\ [][Next]_vars

\* ------------------------------------------------------------------- claims

\* A call of search or filtered_search has ended.
SearchEnded == pc # "idle" /\ call.op \in {"search", "filtered_search"}

\* C1: with both a taxon and a category present, the category is used as
\* given, case-insensitively: for every taxon t of TAX_TO_NS and every
\* category c whose lower-cased form is a key of TAX_TO_NS[t], namespace
\* resolution returns TAX_TO_NS[t][lower(c)], not an absent filter.
BothPresentUsesCategory ==
    (/\ SearchEnded
     /\ call.taxon_filter # None
     /\ call.category_filter # None
     /\ call.taxon_filter[1] \in DOMAIN TAX_TO_NS
     /\ lower(call.category_filter[1]) \in DOMAIN TAX_TO_NS[call.taxon_filter[1]])
    => /\ namespace_filter.raised = "none"
       /\ namespace_filter.value =
            Some(TAX_TO_NS[call.taxon_filter[1]][lower(call.category_filter[1])])

\* C2: with a category present and the taxon absent, namespace resolution
\* raises ValueError for every category value; filtered_search then raises it
\* too, before any outbound request is issued, and returns no SimResult.
CategoryWithoutTaxonRejected ==
    (/\ SearchEnded
     /\ call.category_filter # None
     /\ call.taxon_filter = None)
    => /\ namespace_filter.raised = "ValueError"
       /\ outcome.raised = "ValueError"
       /\ outcome.value = None
       /\ sent = <<>>
       /\ answer = None

CategoryWithoutTaxonWitness ==
    /\ SearchEnded
    /\ call.taxon_filter = None
    /\ call.category_filter = Some("gene")
    /\ outcome.raised = "ValueError"

\* C3: with a taxon present and the category absent, the category is taken
\* from taxon_category_default and the result is the TAX_TO_NS entry of
\* (taxon, default category), so taxon 9606 resolves to the entry of
\* (9606, "disease"); with both absent the result is no filter.
TaxonOnlyUsesDefault ==
    /\ (/\ SearchEnded
        /\ call.taxon_filter # None
        /\ call.category_filter = None
        /\ call.taxon_filter[1] \in DOMAIN taxon_category_default)
       => /\ namespace_filter.raised = "none"
          /\ namespace_filter.value =
                Some(TAX_TO_NS[call.taxon_filter[1]]
                              [taxon_category_default[call.taxon_filter[1]]])
          /\ call.taxon_filter[1] = 9606
                => namespace_filter.value = Some(TAX_TO_NS[9606]["disease"])
    /\ (/\ SearchEnded
        /\ call.taxon_filter = None
        /\ call.category_filter = None)
       => namespace_filter = Return(None)

TaxonOnlyWitness ==
    /\ SearchEnded
    /\ call.taxon_filter = Some(9606)
    /\ call.category_filter = None
    /\ namespace_filter = Return(Some("MONDO"))
    /\ Len(sent) = 1

\* The category namespace resolution is to look up: the one supplied, or the
\* taxon's default.
EffectiveCategory ==
    IF call.category_filter # None THEN call.category_filter
    ELSE IF call.taxon_filter[1] \in DOMAIN taxon_category_default
    THEN Some(taxon_category_default[call.taxon_filter[1]])
    ELSE None

\* C4: a filter whose taxon is not a key of TAX_TO_NS, or whose category
\* (supplied or defaulted) is not a key of that taxon's entry, makes
\* filtered_search fail with an error, and no outbound request is issued.
UnresolvableFilterRejected ==
    (/\ SearchEnded
     /\ call.taxon_filter # None
     /\ \/ call.taxon_filter[1] \notin DOMAIN TAX_TO_NS
        \/ EffectiveCategory = None
        \/ lower(EffectiveCategory[1]) \notin DOMAIN TAX_TO_NS[call.taxon_filter[1]])
    => /\ outcome.raised # "none"
       /\ sent = <<>>

\* A call has ended by returning a SimResult.
Returned == pc # "idle" /\ outcome.raised = "none"

\* The response key of the scores the call ranks by.
ScoreKey == method2key[call.method]

\* C5: _rank_results assigns dense, tie-aware ranks along its output order:
\* the first result has rank 1, a later result has its predecessor's rank when
\* their scores are equal and exactly that rank + 1 when its score is strictly
\* lower; ranks never decrease or skip a value, and two results have equal
\* ranks exactly when their scores are equal.
DenseRanks ==
    Returned =>
        /\ sim_resp.results[1].rank = 1
        /\ \A i \in 2..Len(sim_resp.results) :
            /\ sim_resp.results[i][ScoreKey] = sim_resp.results[i - 1][ScoreKey]
                => sim_resp.results[i].rank = sim_resp.results[i - 1].rank
            /\ sim_resp.results[i][ScoreKey] < sim_resp.results[i - 1][ScoreKey]
                => sim_resp.results[i].rank = sim_resp.results[i - 1].rank + 1
            /\ sim_resp.results[i].rank \in
                {sim_resp.results[i - 1].rank, sim_resp.results[i - 1].rank + 1}
        /\ \A i, k \in DOMAIN sim_resp.results :
            (sim_resp.results[i].rank = sim_resp.results[k].rank)
                <=> (sim_resp.results[i][ScoreKey] = sim_resp.results[k][ScoreKey])

\* Scores 10, 10, 7 under the method were ranked 1, 1, 2.
DenseRanksWitness ==
    /\ pc = "done"
    /\ Returned
    /\ [i \in DOMAIN sim_resp.results |-> sim_resp.results[i][ScoreKey]] = <<10, 10, 7>>
    /\ [i \in DOMAIN sim_resp.results |-> sim_resp.results[i].rank] = <<1, 1, 2>>

\* A raw result without the rank _rank_results sets on it.
WithoutRank(result) == [k \in DOMAIN result \ {"rank"} |-> result[k]]

\* Where a stable sort by descending score puts the i-th result of the
\* remote service's answer: after the results with a higher score and after
\* the earlier results with the same score.
StablePosition(i) ==
    Cardinality({k \in DOMAIN answer.value.results :
        \/ answer.value.results[k][ScoreKey] > answer.value.results[i][ScoreKey]
        \/ /\ answer.value.results[k][ScoreKey] = answer.value.results[i][ScoreKey]
           /\ k <= i})

\* C6: the list _rank_results returns is a permutation of its input sorted by
\* descending score under the method, and the sort is stable: results with
\* equal scores keep the relative order they had in the input.
StableDescendingSort ==
    (pc = "done" /\ Returned) =>
        /\ Len(sim_resp.results) = Len(answer.value.results)
        /\ \A i \in DOMAIN answer.value.results :
            WithoutRank(sim_resp.results[StablePosition(i)])
                = WithoutRank(answer.value.results[i])
        /\ \A i, k \in DOMAIN sim_resp.results :
            i < k => sim_resp.results[i][ScoreKey] >= sim_resp.results[k][ScoreKey]

\* Two different results with the same score came before a result with a
\* higher score, and kept their order behind it.
StableSortWitness ==
    /\ pc = "done"
    /\ Returned
    /\ Len(answer.value.results) = 3
    /\ answer.value.results[1].j.id # answer.value.results[2].j.id
    /\ answer.value.results[1][ScoreKey] = answer.value.results[2][ScoreKey]
    /\ answer.value.results[3][ScoreKey] > answer.value.results[1][ScoreKey]
    /\ sim_resp.results[2].j.id = answer.value.results[1].j.id
    /\ sim_resp.results[3].j.id = answer.value.results[2].j.id

\* C7: ranking is idempotent: _rank_results applied to the list it returned,
\* under the same method, leaves the order and every rank as they were.
RankingIdempotent == [][pc' = "reranked" => sim_resp' = sim_resp]_vars

\* A list with a tie and a strict drop was ranked a second time.
RankingIdempotentWitness ==
    /\ pc = "reranked"
    /\ Len(sim_resp.results) = 3
    /\ sim_resp.results[1].j.id # sim_resp.results[2].j.id
    /\ sim_resp.results[1].rank = sim_resp.results[2].rank
    /\ sim_resp.results[3].rank = 2
    /\ \E i \in DOMAIN answer.value.results : "rank" \in DOMAIN answer.value.results[i]

\* C8: in compare mode every match of the returned SimResult has the rank
\* "NaN", whatever the scores and the rank the ranker computed; in search mode
\* each match's rank is the integer rank the ranker computed.
CompareRankSentinel ==
    Returned =>
        \A i \in DOMAIN outcome.value.matches :
            IF call.op = "compare"
            THEN /\ outcome.value.matches[i].rank.t = "str"
                 /\ outcome.value.matches[i].rank.v = "NaN"
            ELSE /\ outcome.value.matches[i].rank.t = "int"
                 /\ outcome.value.matches[i].rank.v = sim_resp.results[i].rank

\* A compare whose ranker computed the ranks 1 and 2 returned "NaN" ranks.
CompareRankWitness ==
    /\ Returned
    /\ call.op = "compare"
    /\ Len(sim_resp.results) = 2
    /\ sim_resp.results[1].rank = 1
    /\ sim_resp.results[2].rank = 2
    /\ outcome.value.matches[2].rank.t = "str"
    /\ outcome.value.matches[2].rank.v = "NaN"

\* C9: in search and filtered_search an empty negated list logs nothing, a
\* non-empty one logs exactly one warning and is no error (the request is
\* still issued and its answer converted), and the outbound request carries
\* only the profile ids and the namespace filter, never the negated ids.
NegationOnlyWarns ==
    SearchEnded =>
        /\ Len(call.negated_classes) = 0 => log = <<>>
        /\ Len(call.negated_classes) > 0
            => /\ Len(log) = 1
               /\ log[1].level = "warning"
        /\ namespace_filter.raised = "none"
            => sent = <<[endpoint |-> "searchByAttributeSet",
                         params |-> [a |-> call.id_list,
                                     target |-> namespace_filter.value]]>>
        /\ \A i \in DOMAIN sent :
            /\ DOMAIN sent[i].params = {"a", "target"}
            /\ Range(sent[i].params.a) \cap Range(call.negated_classes) = {}
        /\ (namespace_filter.raised = "none" /\ answer.raised = "none"
                /\ Len(answer.value.results) > 0)
            => outcome.raised = "none"

\* A search with negated ids logged its warning and returned a SimResult.
NegationWitness ==
    /\ SearchEnded
    /\ Len(call.negated_classes) > 0
    /\ Len(log) = 1
    /\ Len(sent) = 1
    /\ outcome.raised = "none"
    /\ Len(outcome.value.matches) > 0

\* C10: the matches of a returned SimResult are one SimMatch per raw result,
\* in the order _rank_results produced (descending score under the method),
\* each with that result's score under the method and with as many
\* pairwise matches as the raw result's matches list has entries.
AssemblyKeepsRanking ==
    Returned =>
        /\ Len(outcome.value.matches) = Len(answer.value.results)
        /\ Len(outcome.value.matches) = Len(sim_resp.results)
        /\ \A i \in DOMAIN outcome.value.matches :
            /\ outcome.value.matches[i].id = sim_resp.results[i].j.id
            /\ outcome.value.matches[i].label = sim_resp.results[i].j.label
            /\ outcome.value.matches[i].score = sim_resp.results[i][ScoreKey]
            /\ Len(outcome.value.matches[i].pairwise_match)
                = Len(sim_resp.results[i].matches)
        /\ \A i, k \in DOMAIN outcome.value.matches :
            i < k => outcome.value.matches[i].score >= outcome.value.matches[k].score

\* Three results with different numbers of pairwise matches, the answer not
\* in score order, were assembled.
AssemblyWitness ==
    /\ Returned
    /\ Len(outcome.value.matches) = 3
    /\ answer.value.results[1][ScoreKey] < answer.value.results[3][ScoreKey]
    /\ Len(outcome.value.matches[1].pairwise_match) = 2
    /\ Len(outcome.value.matches[2].pairwise_match) = 1
    /\ Len(outcome.value.matches[3].pairwise_match) = 0

\* The remote service answered the call's request with a JSON body whose
\* results list is empty.
EmptyResultsAnswered ==
    /\ pc # "idle"
    /\ Len(sent) = 1
    /\ answer.raised = "none"
    /\ Len(answer.value.results) = 0

\* C11: an empty result list is an error path, not an empty answer:
\* _rank_results reads the first element of the sorted list unconditionally
\* and raises, so search, filtered_search and compare on a response with no
\* results raise that error and return no SimResult, partial or otherwise.
EmptyResultsRaise ==
    EmptyResultsAnswered =>
        /\ outcome.raised = "IndexError"
        /\ outcome.value = None
        /\ sim_resp.results = <<>>
        /\ pc = "done"

\* A compare ended on an answer with an empty results list.
EmptyResultsWitness ==
    /\ EmptyResultsAnswered
    /\ call.op = "compare"
    /\ call.method = "JACCARD"
    /\ outcome.raised = "IndexError"

====
